---- MODULE Spec2Model ----
(***************************************************************************)
(* Model of src/error_analyzer.py: one run of main() over a raw error log.  *)
(*                                                                         *)
(* A raw log is a sequence of tokens.  A token is a piece of text that the  *)
(* program's substring tests and regular expressions treat as a unit: a     *)
(* whitespace character, some other character, one of the error-type        *)
(* markers, a traceback location  File "<path>", line <digits>  or a        *)
(* stack-trace location  at <path>:<digits>:<col>.                          *)
(* A file is the number of lines it has; line i of a file is written i.     *)
(* A Python string built by an f-string is the sequence of its parts.       *)
(***************************************************************************)
EXTENDS Integers, Sequences, FiniteSets, TLC

\* ---------------------------------------------------------------- bounds
MaxLogLen == 2
MaxDigit == 1
MaxFileLines == 1
MaxTotalLines == 50

\* ------------------------------------------------------- program constants
\* extract_code_context(file_path, line_number, context_lines=5)
context_lines == 5

\* ------------------------------------------------------------ Python values
\* Optional values (None or a value) are sequences of length 0 or 1.
None == <<>>
Some(x) == <<x>>

\* ai_suggestions: None or a str (the sequence of its parts).
PyNone == [type |-> "NoneType", val |-> <<>>]
PyStr(parts) == [type |-> "str", val |-> parts]

\* bool(s) of a str given as its sequence of parts
Truthy(s) == s # <<>>

Max(a, b) == IF a >= b THEN a ELSE b
Min(a, b) == IF a <= b THEN a ELSE b

\* -------------------------------------------------------------------- logs
Tok(kind, name, digits) == [kind |-> kind, name |-> name, digits |-> digits]

Whitespace == Tok("text", " ", <<>>)
OtherChar == Tok("text", "x", <<>>)
Markers ==
    {"SyntaxError", "TypeError", "ImportError", "ModuleNotFoundError",
     "NameError", "AttributeError"}
MarkerTokens == {Tok("text", m, <<>>) : m \in Markers}
PyLoc(digits) == Tok("pyloc", "app.py", digits)
JsLoc(digits) == Tok("jsloc", "app.js", digits)

LineTexts == {<<d>> : d \in 0..MaxDigit}
Tokens ==
    {Whitespace, OtherChar} \cup MarkerTokens
        \cup {PyLoc(ds) : ds \in LineTexts} \cup {JsLoc(ds) : ds \in LineTexts}

SeqsUpTo(S, n) == UNION {[1..k -> S] : k \in 0..n}
Logs == SeqsUpTo(Tokens, MaxLogLen)

\* two-digit line texts, for the extractor's specification
WideLineTexts == {<<a, b>> : a \in 0..9, b \in 0..9}
WideLogs ==
    {<<>>} \cup {<<PyLoc(ds), Tok("text", "NameError", <<>>)>> : ds \in WideLineTexts}

\* the files open() can find at a path: unreadable, or readable with n lines
Unreadable == [readable |-> FALSE, nlines |-> 0]
File(n) == [readable |-> TRUE, nlines |-> n]
Files == {Unreadable} \cup {File(n) : n \in 0..MaxFileLines}
WideFiles == {Unreadable} \cup {File(n) : n \in 0..MaxTotalLines}

\* ------------------------------------------------------------ str methods
IsSpace(t) == t = Whitespace

RECURSIVE LStrip(_)
LStrip(s) == IF s # <<>> /\ IsSpace(Head(s)) THEN LStrip(Tail(s)) ELSE s

RECURSIVE RStrip(_)
RStrip(s) ==
    IF s # <<>> /\ IsSpace(s[Len(s)]) THEN RStrip(SubSeq(s, 1, Len(s) - 1)) ELSE s

\* str.strip()
Strip(s) == RStrip(LStrip(s))

\* needle in error_log
Contains(log, needle) ==
    \E i \in 1..Len(log) : log[i].kind = "text" /\ log[i].name = needle

\* re.search: the leftmost match of a location pattern, None when there is none
Search(log, kind) ==
    LET hits == {i \in 1..Len(log) : log[i].kind = kind}
    IN  IF hits = {} THEN None
        ELSE Some(log[CHOOSE i \in hits : \A j \in hits : i <= j])

\* int(digits)
RECURSIVE int(_)
int(ds) == IF ds = <<>> THEN 0 ELSE 10 * int(SubSeq(ds, 1, Len(ds) - 1)) + ds[Len(ds)]

\* ------------------------------------------------------- parse_error_log
\* the if/elif chain over the error-type markers
ErrorTypeSwapped(error_log) ==
    IF Contains(error_log, "TypeError") THEN "TypeError"
    ELSE IF Contains(error_log, "SyntaxError") THEN "SyntaxError"
    ELSE IF Contains(error_log, "NameError") THEN "NameError"
    ELSE IF Contains(error_log, "ImportError")
            \/ Contains(error_log, "ModuleNotFoundError") THEN "ImportError"
    ELSE IF Contains(error_log, "AttributeError") THEN "AttributeError"
    ELSE "Unknown"

ErrorType(error_log) ==
    IF Contains(error_log, "SyntaxError") THEN "SyntaxError"
    ELSE IF Contains(error_log, "TypeError") THEN "TypeError"
    ELSE IF Contains(error_log, "ImportError")
            \/ Contains(error_log, "ModuleNotFoundError") THEN "ImportError"
    ELSE IF Contains(error_log, "NameError") THEN "NameError"
    ELSE IF Contains(error_log, "AttributeError") THEN "AttributeError"
    ELSE "Unknown"

parse_error_log(error_log) ==
    LET python_error == Search(error_log, "pyloc")
        js_error == Search(error_log, "jsloc")
        loc == IF python_error # None THEN python_error ELSE js_error
    IN  [error_type |-> ErrorType(error_log),
         file_path |-> IF loc # None THEN Some(loc[1].name) ELSE None,
         line_number |-> IF loc # None THEN Some(int(loc[1].digits)) ELSE None,
         message |-> error_log]

\* --------------------------------------------------- extract_code_context
\* lines[start:end] of a file whose line i is written i
Slice(nlines, start, end) ==
    LET lo == Min(start, nlines)
        hi == Min(end, nlines)
    IN  IF hi > lo THEN [i \in 1..(hi - lo) |-> lo + i] ELSE <<>>

extract_code_context(file, line_number) ==
    IF file.readable
    THEN LET start == Max(0, line_number - context_lines - 1)
             end == Min(file.nlines, line_number + context_lines)
         IN  [code |-> Slice(file.nlines, start, end),
              start_line |-> start + 1,
              end_line |-> end,
              error_line |-> line_number]
    ELSE [code |-> <<>>, error |-> <<"Could not extract code: ", "OSError">>]

\* ------------------------------------------ generate_fallback_suggestions
DefaultSuggestions ==
    <<"Review the error message carefully",
      "Check the documentation for the failing component",
      "Try searching for similar errors online">>

suggestions ==
    [SyntaxError |->
        <<"Check for missing parentheses, brackets, or quotes",
          "Verify proper indentation (especially in Python)",
          "Look for unclosed code blocks">>,
     ImportError |->
        <<"Verify the module is installed: pip install <module>",
          "Check if the import path is correct",
          "Ensure the module is in your requirements.txt">>,
     TypeError |->
        <<"Check if you're passing the correct data types",
          "Verify function arguments match expected types",
          "Review type conversions (str, int, float, etc.)">>,
     NameError |->
        <<"Check if the variable is defined before use",
          "Verify correct spelling of variable names",
          "Ensure variable is in correct scope">>,
     AttributeError |->
        <<"Verify the object has the attribute you're accessing",
          "Check if object is None before accessing attributes",
          "Review the object's available methods and properties">>]

\* suggestions.get(error_type, []) : no default list
FallbackNoDefault(info) ==
    LET error_type == IF "error_type" \in DOMAIN info THEN info.error_type ELSE "Unknown"
    IN  IF error_type \in DOMAIN suggestions THEN suggestions[error_type] ELSE <<>>

generate_fallback_suggestions(info) ==
    LET error_type == IF "error_type" \in DOMAIN info THEN info.error_type ELSE "Unknown"
    IN  IF error_type \in DOMAIN suggestions
        THEN suggestions[error_type]
        ELSE DefaultSuggestions

\* ------------------------------------------------------------------ state
VARIABLES
    error_log,            \* sys.argv[1] or stdin
    OPENAI_AVAILABLE,     \* import openai succeeded
    ANTHROPIC_AVAILABLE,  \* import anthropic succeeded
    environ,              \* os.environ: <<>> is an unset (or empty) variable
    disk,                 \* the file open() finds at the path the log names
    pc,                   \* where main() is
    error_info,           \* None until parse_error_log has run
    code_context,         \* None unless extract_code_context has run
    ai_suggestions,       \* PyNone or the str a provider function returned
    calls,                \* the provider API requests sent, in order
    raised,               \* the exception the provider call raised, if any
    stdout,               \* the JSON objects printed
    exit_code,            \* None while running
    \* update_deployment_status.py
    status,               \* the status argument
    commit_sha,           \* the commit_sha argument
    all_records,          \* None until table.all() has returned
    updates,              \* the table.update requests issued, in order
    returned              \* None until update_deployment_status returns

vars ==
    <<error_log, OPENAI_AVAILABLE, ANTHROPIC_AVAILABLE, environ, disk, pc, error_info,
      code_context, ai_suggestions, calls, raised, stdout, exit_code,
      status, commit_sha, all_records, updates, returned>>

\* the variables of update_deployment_status
deployment == <<status, commit_sha, all_records, updates, returned>>

inputs ==
    <<error_log, OPENAI_AVAILABLE, ANTHROPIC_AVAILABLE, environ, disk, deployment>>

EnvNames == {"OPENAI_API_KEY", "ANTHROPIC_API_KEY"}
Environs == [EnvNames -> {<<>>, <<"sk-key">>}]

\* os.getenv(name)
getenv(name) == environ[name]

Started ==
    /\ pc = "start"
    /\ error_info = None
    /\ code_context = None
    /\ ai_suggestions = PyNone
    /\ calls = <<>>
    /\ raised = None
    /\ stdout = <<>>
    /\ exit_code = None

\* error_analyzer.py runs alone: update_deployment_status is not called
NotDeploying ==
    /\ status = "Success"
    /\ commit_sha = <<>>
    /\ all_records = None
    /\ updates = <<>>
    /\ returned = None

Init ==
    /\ NotDeploying
    /\ error_log \in Logs
    /\ OPENAI_AVAILABLE \in BOOLEAN
    /\ ANTHROPIC_AVAILABLE \in BOOLEAN
    /\ environ \in Environs
    /\ disk \in Files
    /\ Started

\* ------------------------------------------------------------------- main
\* if not error_log  (the strip() left out)
InputMissingNoStrip(log) == ~Truthy(log)

\* if not error_log.strip()
InputMissing(log) == ~Truthy(Strip(log))

ReadInput ==
    /\ pc = "start"
    /\ IF InputMissing(error_log)
       THEN /\ stdout' = Append(stdout, [success |-> FALSE, error |-> "No error log provided"])
            /\ exit_code' = Some(1)
            /\ pc' = "exited"
       ELSE /\ pc' = "parse"
            /\ UNCHANGED <<stdout, exit_code>>
    /\ UNCHANGED <<inputs, error_info, code_context, ai_suggestions, calls, raised>>

ParseErrorLog ==
    /\ pc = "parse"
    /\ error_info' = Some(parse_error_log(error_log))
    /\ pc' = "context"
    /\ UNCHANGED <<inputs, code_context, ai_suggestions, calls, raised, stdout, exit_code>>

\* if error_info['file_path'] and error_info['line_number']
HasLocation(info) ==
    /\ info.file_path # None
    /\ info.line_number # None
    /\ info.line_number[1] # 0

ExtractContext ==
    /\ pc = "context"
    /\ IF HasLocation(error_info[1])
       THEN code_context' = Some(extract_code_context(disk, error_info[1].line_number[1]))
       ELSE code_context' = None
    /\ pc' = "ai"
    /\ UNCHANGED <<inputs, error_info, ai_suggestions, calls, raised, stdout, exit_code>>

\* the if / elif of main that picks the provider function to call
ProviderBranchAnthropicFirst ==
    IF ANTHROPIC_AVAILABLE /\ Truthy(getenv("ANTHROPIC_API_KEY")) THEN "anthropic"
    ELSE IF OPENAI_AVAILABLE /\ Truthy(getenv("OPENAI_API_KEY")) THEN "openai"
    ELSE "none"

ProviderBranch ==
    IF OPENAI_AVAILABLE /\ Truthy(getenv("OPENAI_API_KEY")) THEN "openai"
    ELSE IF ANTHROPIC_AVAILABLE /\ Truthy(getenv("ANTHROPIC_API_KEY")) THEN "anthropic"
    ELSE "none"

\* main never reaches a provider: ai_suggestions stays None
NoProvider ==
    /\ pc = "ai"
    /\ ProviderBranch = "none"
    /\ pc' = "build"
    /\ UNCHANGED <<inputs, error_info, code_context, ai_suggestions, calls, raised,
                   stdout, exit_code>>

\* analyze_with_<provider> up to the API request: the two early returns, then
\* the client construction, which is outside the try and may raise
Enter(provider, available, key_name, unavailable_msg, unset_msg) ==
    /\ pc = "ai"
    /\ ProviderBranch = provider
    /\ IF ~available
       THEN /\ ai_suggestions' = PyStr(<<unavailable_msg>>)
            /\ pc' = "build"
            /\ UNCHANGED <<calls, exit_code>>
       ELSE IF ~Truthy(getenv(key_name))
       THEN /\ ai_suggestions' = PyStr(<<unset_msg>>)
            /\ pc' = "build"
            /\ UNCHANGED <<calls, exit_code>>
       ELSE \E constructed \in BOOLEAN :
                IF constructed
                THEN /\ calls' = Append(calls, provider)
                     /\ pc' = "calling"
                     /\ UNCHANGED <<ai_suggestions, exit_code>>
                ELSE /\ pc' = "crashed"
                     /\ exit_code' = Some(1)
                     /\ UNCHANGED <<ai_suggestions, calls>>
    /\ UNCHANGED <<inputs, error_info, code_context, raised, stdout>>

EnterOpenAI ==
    Enter("openai", OPENAI_AVAILABLE, "OPENAI_API_KEY",
          "OpenAI library not available", "OPENAI_API_KEY environment variable not set")

EnterAnthropic ==
    Enter("anthropic", ANTHROPIC_AVAILABLE, "ANTHROPIC_API_KEY",
          "Anthropic library not available",
          "ANTHROPIC_API_KEY environment variable not set")

\* what the API request can raise inside the try: a network, auth or quota
\* error of the client, or an IndexError on a response with no choices/content
ApiExceptions == {"APIConnectionError", "IndexError"}

\* except Exception: return None  (the error dropped)
CaughtAsNone(prefix, exc) == PyNone

\* the except Exception handler around the API request: the str it returns
Caught(prefix, exc) == PyStr(<<prefix, exc>>)

\* response.choices[0].message.content is a str or None
OpenAIReturns ==
    /\ pc = "calling"
    /\ calls[Len(calls)] = "openai"
    /\ \/ /\ \E content \in {PyStr(<<"openai suggestions">>), PyNone} :
                ai_suggestions' = content
          /\ raised' = None
       \/ \E exc \in ApiExceptions :
             /\ ai_suggestions' = Caught("Error calling OpenAI API: ", exc)
             /\ raised' = Some(exc)
    /\ pc' = "build"
    /\ UNCHANGED <<inputs, error_info, code_context, calls, stdout, exit_code>>

\* message.content[0].text is a str
AnthropicReturns ==
    /\ pc = "calling"
    /\ calls[Len(calls)] = "anthropic"
    /\ \/ /\ ai_suggestions' = PyStr(<<"anthropic suggestions">>)
          /\ raised' = None
       \/ \E exc \in ApiExceptions :
             /\ ai_suggestions' = Caught("Error calling Anthropic API: ", exc)
             /\ raised' = Some(exc)
    /\ pc' = "build"
    /\ UNCHANGED <<inputs, error_info, code_context, calls, stdout, exit_code>>

\* the 'ai_provider' entry of the result
ai_provider ==
    IF OPENAI_AVAILABLE /\ Truthy(getenv("OPENAI_API_KEY")) THEN "openai"
    ELSE IF ANTHROPIC_AVAILABLE /\ Truthy(getenv("ANTHROPIC_API_KEY")) THEN "anthropic"
    ELSE "none"

Result ==
    [success |-> TRUE,
     timestamp |-> "datetime.now().isoformat()",
     error_info |-> error_info[1],
     code_context |-> code_context,
     ai_suggestions |-> ai_suggestions,
     fallback_suggestions |-> generate_fallback_suggestions(error_info[1]),
     ai_provider |-> ai_provider]

BuildResult ==
    /\ pc = "build"
    /\ stdout' = Append(stdout, Result)
    /\ exit_code' = Some(0)
    /\ pc' = "done"
    /\ UNCHANGED <<inputs, error_info, code_context, ai_suggestions, calls, raised>>

ProgramStep ==
    \/ ReadInput
    \/ ParseErrorLog
    \/ ExtractContext
    \/ NoProvider
    \/ EnterOpenAI
    \/ EnterAnthropic
    \/ BuildResult

Next ==
    \/ ProgramStep
    \/ OpenAIReturns
    \/ AnthropicReturns

Spec == Init /\ [][Next]_vars

\* the interpreter runs main() to its end; nothing makes a provider answer
FairSpec == Spec /\ WF_vars(ProgramStep)

\* the extractor over two-digit line numbers and files of up to MaxTotalLines
InitExtract ==
    /\ NotDeploying
    /\ error_log \in WideLogs
    /\ OPENAI_AVAILABLE = FALSE
    /\ ANTHROPIC_AVAILABLE = FALSE
    /\ environ = [n \in EnvNames |-> <<>>]
    /\ disk \in WideFiles
    /\ Started

NextExtract ==
    \/ ReadInput
    \/ ParseErrorLog
    \/ ExtractContext

SpecExtract == InitExtract /\ [][NextExtract]_vars

\* ------------------------------------------- update_deployment_status.py
\* A commit SHA is the sequence of its characters; a createdTime is the
\* sequence of the digits of its ISO-8601 text, compared as Python compares
\* strings.  A record's id is its place in what table.all() returned.
MaxRecords == 6

\* sorted_records[:5]
RecentRecords == 5
\* commit_sha[:7]
ShortShaLen == 7

FullSha == <<"a", "b", "c", "1", "2", "3", "4", "d", "e", "f">>
ShortSha == <<"a", "b", "c", "1", "2", "3", "4">>

\* the (status, commit_sha) arguments of the calls considered
Arguments == {<<"Success", FullSha>>, <<"Failed", ShortSha>>, <<"Success", <<>>>>}

\* the fields of a record; Airtable leaves an empty field out
FieldsWith(sha) == "Commit SHA" :> sha
NoCommitSha == "Build Status" :> "Pending"
RecordFields == {FieldsWith(FullSha), FieldsWith(ShortSha), NoCommitSha}

CreatedTimes == {<<0, 1>>, <<0, 2>>}

RecordData == [createdTime : CreatedTimes, fields : RecordFields]

\* what table.all() can return
Tables ==
    {[i \in 1..Len(t) |->
         [id |-> i, createdTime |-> t[i].createdTime, fields |-> t[i].fields]] :
     t \in SeqsUpTo(RecordData, MaxRecords)}

AirtableEnvNames ==
    {"AIRTABLE_API_KEY", "AIRTABLE_BASE_ID", "AIRTABLE_DEPLOYMENTS_TABLE_ID"}

\* a < b on str
RECURSIVE StrLess(_, _)
StrLess(a, b) ==
    IF b = <<>> THEN FALSE
    ELSE IF a = <<>> THEN TRUE
    ELSE IF Head(a) # Head(b) THEN Head(a) < Head(b)
    ELSE StrLess(Tail(a), Tail(b))

\* s[:n]
Prefix(s, n) == SubSeq(s, 1, Min(n, Len(s)))

\* fields.get(key, default)
Get(fields, key, default) == IF key \in DOMAIN fields THEN fields[key] ELSE default

\* the stable sort's insertion of r: after every element whose key is not less
RECURSIVE InsertDescending(_, _)
InsertDescending(sorted, r) ==
    IF sorted = <<>> THEN <<r>>
    ELSE IF StrLess(Head(sorted).createdTime, r.createdTime)
    THEN <<r>> \o sorted
    ELSE <<Head(sorted)>> \o InsertDescending(Tail(sorted), r)

\* sorted(all_records, key=lambda x: x['createdTime'], reverse=True)
RECURSIVE SortedByCreatedTime(_)
SortedByCreatedTime(records) ==
    IF records = <<>> THEN <<>>
    ELSE InsertDescending(SortedByCreatedTime(SubSeq(records, 1, Len(records) - 1)),
                          records[Len(records)])

\* for record in sorted_records  (the [:5] left out)
CheckedRecordsAll(sorted_records) == sorted_records

\* for record in sorted_records[:5]
CheckedRecords(sorted_records) == Prefix(sorted_records, RecentRecords)

\* record_sha == commit_sha or record_sha == commit_sha[:7]
ShaMatches(record, sha) ==
    LET record_sha == Get(record.fields, "Commit SHA", <<>>)
    IN  record_sha = sha \/ record_sha = Prefix(sha, ShortShaLen)

\* the record the loop and the `if not target_record` leave in target_record
TargetRecord(records, sha) ==
    LET sorted_records == SortedByCreatedTime(records)
        checked == CheckedRecords(sorted_records)
        hits == {i \in 1..Len(checked) : ShaMatches(checked[i], sha)}
    IN  IF hits # {}
        THEN checked[CHOOSE i \in hits : \A j \in hits : i <= j]
        ELSE sorted_records[1]

\* if not all([api_key, base_id, table_id]): return False
CheckCredentials ==
    /\ pc = "deploy"
    /\ IF \E n \in AirtableEnvNames : ~Truthy(getenv(n))
       THEN /\ returned' = Some(FALSE)
            /\ pc' = "returned"
       ELSE /\ pc' = "fetch"
            /\ UNCHANGED returned
    /\ UNCHANGED <<error_log, OPENAI_AVAILABLE, ANTHROPIC_AVAILABLE, environ, disk,
                   error_info, code_context, ai_suggestions, calls, raised, stdout,
                   exit_code, status, commit_sha, all_records, updates>>

\* the try block: Api(api_key), api.table(...), table.all(), the sort, the
\* search and table.update(record_id, {'Build Status': status}).  An
\* exception before the update, or no records, returns False with nothing
\* issued; the update returns True when it succeeds, False when it raises
FetchAndUpdate ==
    /\ pc = "fetch"
    /\ \/ /\ returned' = Some(FALSE)
          /\ UNCHANGED <<all_records, updates>>
       \/ \E table \in Tables :
             /\ all_records' = Some(table)
             /\ IF table = <<>>
                THEN /\ returned' = Some(FALSE)
                     /\ UNCHANGED updates
                ELSE /\ updates' =
                            Append(updates,
                                   [record_id |-> TargetRecord(table, commit_sha).id,
                                    fields |-> "Build Status" :> status])
                     /\ \E ok \in BOOLEAN : returned' = Some(ok)
    /\ pc' = "returned"
    /\ UNCHANGED <<error_log, OPENAI_AVAILABLE, ANTHROPIC_AVAILABLE, environ, disk,
                   error_info, code_context, ai_suggestions, calls, raised, stdout,
                   exit_code, status, commit_sha>>

InitDeploy ==
    /\ \E args \in Arguments : status = args[1] /\ commit_sha = args[2]
    /\ environ \in [AirtableEnvNames -> {<<>>, <<"set">>}]
    /\ all_records = None
    /\ updates = <<>>
    /\ returned = None
    /\ pc = "deploy"
    /\ error_log = <<>>
    /\ OPENAI_AVAILABLE = FALSE
    /\ ANTHROPIC_AVAILABLE = FALSE
    /\ disk = Unreadable
    /\ error_info = None
    /\ code_context = None
    /\ ai_suggestions = PyNone
    /\ calls = <<>>
    /\ raised = None
    /\ stdout = <<>>
    /\ exit_code = None

NextDeploy ==
    \/ CheckCredentials
    \/ FetchAndUpdate

SpecDeploy == InitDeploy /\ [][NextDeploy]_vars

\* ------------------------------------------------------------- properties
\* the object printed by a finished run
Printed == stdout[Len(stdout)]

AllWhitespace(log) == \A i \in 1..Len(log) : log[i] = Whitespace

HasMarker(log, m) == \E i \in 1..Len(log) : log[i] = Tok("text", m, <<>>)

Configured(available, key_name) == available /\ environ[key_name] = <<"sk-key">>

\* the providers that are available and configured, in priority order
Eligible ==
    SelectSeq(<<"openai", "anthropic">>,
              LAMBDA p : IF p = "openai"
                         THEN Configured(OPENAI_AVAILABLE, "OPENAI_API_KEY")
                         ELSE Configured(ANTHROPIC_AVAILABLE, "ANTHROPIC_API_KEY"))

\* C1: providers are considered in the order openai, anthropic; only the
\* first available and configured one is ever sent a request, at most one
\* request is sent per analysis, and once main is past the provider step
\* (whatever the provider answered, an error string included) the requests
\* sent are exactly that one.
C1_FirstConfiguredProviderOnly ==
    /\ Len(calls) <= 1
    /\ calls # <<>> => Eligible # <<>> /\ calls = <<Eligible[1]>>
    /\ pc \in {"build", "done"} =>
          calls = IF Eligible = <<>> THEN <<>> ELSE <<Eligible[1]>>

C1_Witness ==
    /\ pc = "done"
    /\ Eligible = <<"openai", "anthropic">>
    /\ calls = <<"openai">>
    /\ raised # None
    /\ Printed.ai_suggestions.type = "str"

\* C2: for a raw log that is not empty or whitespace-only the run never
\* raises: it never ends on an uncaught exception, and when it ends it has
\* printed one result with success = true and exits with status zero.
C2_NeverRaises ==
    ~AllWhitespace(error_log) =>
        /\ pc # "crashed"
        /\ exit_code # None =>
              /\ exit_code = Some(0)
              /\ Len(stdout) = 1
              /\ Printed.success = TRUE

\* C3: an empty or whitespace-only input short-circuits: nothing is parsed,
\* extracted, asked of a provider or looked up, the only output is
\* {success: false, error: "No error log provided"} and the exit status is
\* non-zero; any other input never takes the short-circuit.
C3_EmptyInputShortCircuits ==
    IF AllWhitespace(error_log)
    THEN /\ pc \in {"start", "exited"}
         /\ error_info = None
         /\ code_context = None
         /\ calls = <<>>
         /\ ai_suggestions = PyNone
         /\ pc = "start" => stdout = <<>> /\ exit_code = None
         /\ pc = "exited" =>
               /\ stdout = <<[success |-> FALSE, error |-> "No error log provided"]>>
               /\ exit_code # None
               /\ exit_code[1] # 0
    ELSE /\ pc # "exited"
         /\ \A i \in 1..Len(stdout) : stdout[i].success = TRUE

C3_Witness ==
    /\ pc = "exited"
    /\ error_log # <<>>
    /\ AllWhitespace(error_log)

\* error-type strings outside the five categories
OtherErrorTypes == {"Unknown", "ModuleNotFoundError", "KeyError", "syntaxerror", ""}

\* C4: every result carries a non-empty ordered list of fallback
\* suggestions, whether or not a provider was invoked and whether or not it
\* succeeded: the list of the matching category for the five categories, the
\* generic default list for "Unknown"; and the lookup yields the default
\* list for any other string.
C4_FallbackAlwaysPresent ==
    /\ pc = "done" =>
          LET t == Printed.error_info.error_type
              f == Printed.fallback_suggestions
          IN  /\ Len(f) = 3
              /\ t = "SyntaxError" =>
                    f[1] = "Check for missing parentheses, brackets, or quotes"
              /\ t = "ImportError" =>
                    f[1] = "Verify the module is installed: pip install <module>"
              /\ t = "TypeError" =>
                    f[1] = "Check if you're passing the correct data types"
              /\ t = "NameError" => f[1] = "Check if the variable is defined before use"
              /\ t = "AttributeError" =>
                    f[1] = "Verify the object has the attribute you're accessing"
              /\ t = "Unknown" => f[1] = "Review the error message carefully"
    /\ \A t \in OtherErrorTypes :
          generate_fallback_suggestions([error_type |-> t]) =
              <<"Review the error message carefully",
                "Check the documentation for the failing component",
                "Try searching for similar errors online">>

C4_Witness ==
    /\ pc = "done"
    /\ calls # <<>>
    /\ raised # None
    /\ Printed.error_info.error_type = "Unknown"
    /\ Len(Printed.fallback_suggestions) = 3

\* C5: in every result fallback_used is true exactly when ai_provider is
\* "none", and ai_suggestions is the absent-marker exactly when ai_provider
\* is "none"; otherwise ai_provider names the provider that was invoked.
C5_FallbackUsedIffNoProvider ==
    pc = "done" =>
        /\ "fallback_used" \in DOMAIN Printed
        /\ Printed.fallback_used = (Printed.ai_provider = "none")
        /\ (Printed.ai_suggestions = PyNone) = (Printed.ai_provider = "none")
        /\ Printed.ai_provider # "none" => calls = <<Printed.ai_provider>>

\* the part of C5 about ai_suggestions alone
C5_AbsentMarkerIffNoProvider ==
    pc = "done" => ((Printed.ai_suggestions = PyNone) = (Printed.ai_provider = "none"))

\* C6: when the request to a provider raises, it is not sent again and no
\* other provider is tried: the result names that provider, its
\* ai_suggestions is a string describing the error, and its fallback
\* suggestions are populated.
C6_ProviderErrorIsRecordedOnce ==
    raised # None =>
        /\ Len(calls) = 1
        /\ pc \in {"build", "done"}
        /\ ai_suggestions.type = "str"
        /\ \E i \in 1..Len(ai_suggestions.val) : ai_suggestions.val[i] = raised[1]
        /\ pc = "done" =>
              /\ Printed.ai_provider = calls[1]
              /\ Printed.ai_suggestions = ai_suggestions
              /\ Printed.fallback_suggestions # <<>>

C6_Witness ==
    /\ pc = "done"
    /\ raised = Some("APIConnectionError")
    /\ calls = <<"anthropic">>
    /\ Eligible = <<"anthropic">>

\* C7: line_number is present iff file_path is, and a present line_number is
\* a positive integer; a log matching neither location pattern leaves both
\* absent and no extraction is attempted, and when both are present the
\* extraction is attempted.
C7_LocationFields ==
    error_info # None =>
        LET e == error_info[1]
            located == \E i \in 1..Len(error_log) : error_log[i].kind \in {"pyloc", "jsloc"}
        IN  /\ (e.line_number # None) = (e.file_path # None)
            /\ e.line_number # None => e.line_number[1] > 0
            /\ ~located =>
                  e.line_number = None /\ e.file_path = None /\ code_context = None
            /\ (e.line_number # None /\ e.file_path # None /\ pc \notin {"parse", "context"})
                  => code_context # None

\* the part of C7 that does not depend on the value of the line number
C7_PresentTogether ==
    error_info # None =>
        (error_info[1].line_number # None) = (error_info[1].file_path # None)

\* C8: whenever the file is read, start_line >= 1, end_line >= start_line,
\* error_line = line_number, start_line = max(0, line_number - 5 - 1) + 1 and
\* end_line = min(total_lines, line_number + 5).
C8_ContextBounds ==
    (code_context # None /\ disk.readable) =>
        LET c == code_context[1]
            n == error_info[1].line_number[1]
        IN  /\ c.start_line >= 1
            /\ c.end_line >= c.start_line
            /\ c.error_line = n
            /\ c.start_line = Max(0, n - 6) + 1
            /\ c.end_line = Min(disk.nlines, n + 5)

\* C8's example: line 42 of a file of at least 47 lines
C8_Example ==
    (code_context # None /\ disk.readable /\ disk.nlines >= 47
        /\ error_info[1].line_number = Some(42)) =>
        /\ code_context[1].start_line = 37
        /\ code_context[1].end_line = 47
        /\ code_context[1].error_line = 42

\* the categories in priority order, each with the markers that select it
Priority ==
    <<[type |-> "SyntaxError", markers |-> {"SyntaxError"}],
      [type |-> "TypeError", markers |-> {"TypeError"}],
      [type |-> "ImportError", markers |-> {"ImportError", "ModuleNotFoundError"}],
      [type |-> "NameError", markers |-> {"NameError"}],
      [type |-> "AttributeError", markers |-> {"AttributeError"}]>>

\* C9: the error type is that of the first category in priority order one of
\* whose markers occurs in the log, "Unknown" when none occurs; a log
\* containing "SyntaxError" always gets "SyntaxError".
C9_ErrorTypePriority ==
    error_info # None =>
        LET present == {k \in 1..Len(Priority) :
                           \E m \in Priority[k].markers : HasMarker(error_log, m)}
            t == error_info[1].error_type
        IN  /\ present = {} => t = "Unknown"
            /\ present # {} =>
                  \E k \in present : /\ \A j \in present : k <= j
                                     /\ t = Priority[k].type
            /\ HasMarker(error_log, "SyntaxError") => t = "SyntaxError"

C9_Witness ==
    /\ error_info # None
    /\ error_log = <<Tok("text", "ModuleNotFoundError", <<>>), Tok("text", "TypeError", <<>>)>>
    /\ error_info[1].error_type = "TypeError"

\* C10: every analysis that sends a request to a provider eventually prints
\* its result, even if the provider never responds.
C10_ProviderCallEnds == (pc = "calling") ~> (pc = "done")

\* the Commit SHA of a record, an absent (empty) field read as the empty text
CommitShaOf(x) ==
    IF "Commit SHA" \in DOMAIN x.fields THEN x.fields["Commit SHA"] ELSE <<>>

HasGivenSha(x) ==
    \/ CommitShaOf(x) = commit_sha
    \/ /\ Len(CommitShaOf(x)) = Min(7, Len(commit_sha))
       /\ \A i \in 1..Len(CommitShaOf(x)) : CommitShaOf(x)[i] = commit_sha[i]

\* x was created later than y
Newer(x, y) == StrLess(y.createdTime, x.createdTime)

CredentialMissing == \E n \in AirtableEnvNames : environ[n] = <<>>

C11_WitnessShortMatch ==
    /\ pc = "returned"
    /\ commit_sha = FullSha
    /\ Len(updates) = 1
    /\ CommitShaOf(all_records[1][updates[1].record_id]) = ShortSha
    /\ \E i \in 1..Len(all_records[1]) :
          Newer(all_records[1][i], all_records[1][updates[1].record_id])

====
